---- MODULE Spec2Model ----
(***************************************************************************)
(* Model of i2c_relays.py: the RelayBoard class (a 4-bit relay mask        *)
(* mirrored in memory and written to one I2C register) and the Relay       *)
(* handle (one bit of a shared RelayBoard).                                *)
(*                                                                         *)
(* Names of the natural-language specification and of the code:            *)
(*   set_mask = set_state, toggle_channel = switch, get_mask = get_state,  *)
(*   shutdown = kill, auto_release = not persistent.                       *)
(*                                                                         *)
(* Every method is modelled at the granularity of its statements: a call   *)
(* action (the method's checks and its read of self.state), then the       *)
(* statements of set_state (the assignment, entering the SMBus context,    *)
(* the write, leaving the context), then the caller's continuation.  Each  *)
(* execution context has a program counter, so a second context can be     *)
(* interleaved between the statements of the first.                        *)
(***************************************************************************)
EXTENDS Integers, Sequences, FiniteSets, TLC

(* ----------------------------- bounds --------------------------------- *)

\* state arguments passed to the constructor and to set_state: 0..MaxStateArg
\* (the masks 0b0000..0b1111 and one value that is no mask of 4 channels)
MaxStateArg == 16
\* channel ids tried by callers: 0..MaxId (0 and MaxId are not allowed ids)
MaxId == 5
\* cycle durations tried: -1..MaxDuration (-1 makes time.sleep raise)
MaxDuration == 1

(* ------------------------ program constants --------------------------- *)

RELAY_I2C_ADRESS == 17
RELAY_REGISTER == 16
\* the ids listed in descending order
ALLOWED_IDS_descending == <<4, 3, 2, 1>>

ALLOWED_IDS == <<1, 2, 3, 4>>

(* --------------------- Python integer operators ------------------------ *)

\* Python's & | ^ ~ on unbounded two's-complement integers; \div and % are
\* floor division and non-negative remainder, as Python's // and % by 2.
RECURSIVE BitAnd(_, _)
BitAnd(x, y) ==
    IF x = 0 \/ y = 0 THEN 0
    ELSE IF x = -1 THEN y
    ELSE IF y = -1 THEN x
    ELSE (IF x % 2 = 1 /\ y % 2 = 1 THEN 1 ELSE 0)
         + 2 * BitAnd(x \div 2, y \div 2)

RECURSIVE BitOr(_, _)
BitOr(x, y) ==
    IF x = 0 THEN y
    ELSE IF y = 0 THEN x
    ELSE IF x = -1 \/ y = -1 THEN -1
    ELSE (IF x % 2 = 1 \/ y % 2 = 1 THEN 1 ELSE 0)
         + 2 * BitOr(x \div 2, y \div 2)

RECURSIVE BitXor(_, _)
BitXor(x, y) ==
    IF x = 0 THEN y
    ELSE IF y = 0 THEN x
    ELSE IF x = -1 THEN -y - 1
    ELSE IF y = -1 THEN -x - 1
    ELSE (IF x % 2 # y % 2 THEN 1 ELSE 0)
         + 2 * BitXor(x \div 2, y \div 2)

BitNot(x) == -x - 1

\* the bit of channel id taken without the offset: 2**id
Bit_no_offset(id) == 2 ^ id

\* 2**(id-1)
Bit(id) == 2 ^ (id - 1)

\* an id check that tests only the lower end of the range
IdAllowed_from_1(id) == id >= 1

\* id in self.allowed_ids
IdAllowed(id) == \E i \in 1..Len(ALLOWED_IDS) : ALLOWED_IDS[i] = id

\* switch setting the bit instead of flipping it
SwitchMask_or(s, id) == BitOr(s, Bit(id))

\* self.state ^ 2**(id-1)
SwitchMask(s, id) == BitXor(s, Bit(id))

\* turn_on flipping the bit instead of setting it
TurnOnMask_xor(s, id) == BitXor(s, Bit(id))

\* turn_on adding the bit instead of or-ing it
TurnOnMask_add(s, id) == s + Bit(id)

\* self.state | 2**(id-1)
TurnOnMask(s, id) == BitOr(s, Bit(id))

\* turn_off without the complement of the bit
TurnOffMask_no_not(s, id) == BitAnd(s, Bit(id))

\* self.state & ~2**(id-1)
TurnOffMask(s, id) == BitAnd(s, BitNot(Bit(id)))

\* the byte the device register holds after write_byte_data(.., .., v)
Byte(v) == v % 256

(* ------------------------------ state --------------------------------- *)

Contexts == {"main", "worker"}

\* hw before the program's first successful write: power-on content
Unknown == -1

VARIABLES
    phase,        \* "none": no board yet; "new": in __init__; "live";
                  \* "del": being finalised by the interpreter; "dead"
    state,        \* RelayBoard.state, the mask mirrored in memory
    persistent,   \* RelayBoard.persistent
    hw,           \* the device register: the last byte written successfully
    busReliable,  \* TRUE: write_byte_data never raises
    bus,          \* execution contexts holding an open SMBus handle
    ctx           \* per execution context: position, call, observations

vars == <<phase, state, persistent, hw, busReliable, bus, ctx>>

NoOp == [name |-> "none", id |-> 0, arg |-> 0, flag |-> FALSE]

NoPrev == [name |-> "none", id |-> 0, arg |-> 0, pre |-> 0, res |-> "none"]

\* pc, val, cont, idx, exc: the position and the locals of the running method;
\* op, pre, wlog, res, ret: what a caller observes of the current (or the last)
\* call: the call, the mask before it, the bus writes it attempted, how it
\* ended and what it returned; prev: the same of the call before it
Idle == [pc |-> "idle", op |-> NoOp, val |-> 0, cont |-> "return", idx |-> 0,
         exc |-> FALSE, pre |-> 0, wlog |-> <<>>, res |-> "none", ret |-> <<>>,
         prev |-> NoPrev]

Init ==
    /\ phase = "none"
    /\ state = 0
    /\ persistent = FALSE
    /\ hw = Unknown
    /\ busReliable \in BOOLEAN
    /\ bus = {}
    /\ ctx = [t \in Contexts |-> Idle]

(* ------------------------- inputs of callers -------------------------- *)

StateArgs == 0..MaxStateArg
\* the masks of the 4 channels: 0b0000..0b1111
Masks == 0..(2 ^ Len(ALLOWED_IDS) - 1)
Ids == 0..MaxId
Durations == -1..MaxDuration

(* ------------------------------ helpers ------------------------------- *)

IsIdle(t) == ctx[t].pc = "idle"

\* the RelayBoard methods that write a new mask
Mutators == {"set_state", "switch", "turn_on", "turn_off"}

\* the pairs of consecutive calls a caller compares, against a simulated bus
\* that always succeeds: a mutator followed by a read, or by a mutator of the
\* same channel
Compared(last, name, id) ==
    /\ busReliable
    /\ last.name \in Mutators
    /\ \/ name = "get_state"
       \/ name \in Mutators /\ id = last.id

\* the context's record when it enters a method from the caller
Enter(t, name, id, arg, flag) ==
    [Idle EXCEPT !.op = [name |-> name, id |-> id, arg |-> arg, flag |-> flag],
                 !.pre = state,
                 !.prev = IF Compared(ctx[t].op, name, id)
                            THEN [name |-> ctx[t].op.name, id |-> ctx[t].op.id,
                                  arg |-> ctx[t].op.arg, pre |-> ctx[t].pre,
                                  res |-> ctx[t].res]
                            ELSE NoPrev]

\* the method raises before reaching set_state
Raised(c, exc) == [c EXCEPT !.pc = "idle", !.res = exc]

\* the method returns to its caller
Returned(c) == [c EXCEPT !.pc = "idle", !.res = "ok"]

\* cycle returning once on() has returned, without the sleep and off()
Resume_skip_sleep(c) ==
    IF c.cont = "kill" THEN [c EXCEPT !.pc = "kill"] ELSE Returned(c)

\* where the caller of set_state resumes after a normal return
Resume(c) ==
    IF c.cont = "kill" THEN [c EXCEPT !.pc = "kill"]
    ELSE IF c.cont = "sleep" THEN [c EXCEPT !.pc = "sleep"]
    ELSE Returned(c)

\* set_state returning without a write when the mask does not change
CallSetState_skip_unchanged(c, v, cont) ==
    IF v = state THEN Resume([c EXCEPT !.cont = cont])
    ELSE [c EXCEPT !.pc = "set_state", !.val = v, !.cont = cont]

\* the method calls self.set_state(v); cont is where the caller resumes
CallSetState(c, v, cont) == [c EXCEPT !.pc = "set_state", !.val = v, !.cont = cont]

\* __del__: "if not self.persistent: self.kill()"
DelKills(p) == ~p

(* -------------------------- RelayBoard calls -------------------------- *)

\* RelayBoard.__init__(initial_state, persistent)
RelayBoard_init(t, initial_state, p) ==
    /\ IsIdle(t)
    /\ phase = "none"
    /\ phase' = "new"
    /\ persistent' = p
    /\ ctx' = [ctx EXCEPT ![t] =
                 CallSetState(Enter(t, "RelayBoard", 0, initial_state, p),
                              initial_state, "return")]
    /\ UNCHANGED <<state, hw, busReliable, bus>>

\* set_state keeping only the three low bits of its argument
set_state_low3(t, m) ==
    /\ IsIdle(t)
    /\ phase = "live"
    /\ ctx' = [ctx EXCEPT ![t] =
                 CallSetState(Enter(t, "set_state", 0, m, FALSE), BitAnd(m, 7), "return")]
    /\ UNCHANGED <<phase, state, persistent, hw, busReliable, bus>>

\* RelayBoard.set_state(state), called by the user
set_state(t, m) ==
    /\ IsIdle(t)
    /\ phase = "live"
    /\ ctx' = [ctx EXCEPT ![t] =
                 CallSetState(Enter(t, "set_state", 0, m, FALSE), m, "return")]
    /\ UNCHANGED <<phase, state, persistent, hw, busReliable, bus>>

\* the three methods that check the id and call set_state with a new mask
IdCall(c, id, v) ==
    IF IdAllowed(id) THEN CallSetState(c, v, "return") ELSE Raised(c, "Exception")

\* RelayBoard.switch(id)
switch(t, id) ==
    /\ IsIdle(t)
    /\ phase = "live"
    /\ ctx' = [ctx EXCEPT ![t] =
                 IdCall(Enter(t, "switch", id, 0, FALSE), id, SwitchMask(state, id))]
    /\ UNCHANGED <<phase, state, persistent, hw, busReliable, bus>>

\* RelayBoard.turn_on(id)
turn_on(t, id) ==
    /\ IsIdle(t)
    /\ phase = "live"
    /\ ctx' = [ctx EXCEPT ![t] =
                 IdCall(Enter(t, "turn_on", id, 0, FALSE), id, TurnOnMask(state, id))]
    /\ UNCHANGED <<phase, state, persistent, hw, busReliable, bus>>

\* RelayBoard.turn_off(id)
turn_off(t, id) ==
    /\ IsIdle(t)
    /\ phase = "live"
    /\ ctx' = [ctx EXCEPT ![t] =
                 IdCall(Enter(t, "turn_off", id, 0, FALSE), id, TurnOffMask(state, id))]
    /\ UNCHANGED <<phase, state, persistent, hw, busReliable, bus>>

\* RelayBoard.get_state()
get_state(t) ==
    /\ IsIdle(t)
    /\ phase = "live"
    /\ ctx' = [ctx EXCEPT ![t] =
                 [Returned(Enter(t, "get_state", 0, 0, FALSE)) EXCEPT !.ret = <<state>>]]
    /\ UNCHANGED <<phase, state, persistent, hw, busReliable, bus>>

\* RelayBoard.kill(): enters the loop over self.allowed_ids
kill(t) ==
    /\ IsIdle(t)
    /\ phase = "live"
    /\ ctx' = [ctx EXCEPT ![t] =
                 [Enter(t, "kill", 0, 0, FALSE) EXCEPT !.pc = "kill", !.idx = 1]]
    /\ UNCHANGED <<phase, state, persistent, hw, busReliable, bus>>

\* the body of __del__, entered by context record c
DelBody(c) ==
    IF DelKills(persistent) THEN [c EXCEPT !.pc = "kill", !.idx = 1] ELSE Returned(c)

\* RelayBoard.__exit__: leaving the with block calls self.__del__()
RelayBoard_exit(t) ==
    /\ IsIdle(t)
    /\ phase = "live"
    /\ ctx' = [ctx EXCEPT ![t] = DelBody(Enter(t, "__exit__", 0, 0, FALSE))]
    /\ UNCHANGED <<phase, state, persistent, hw, busReliable, bus>>

\* RelayBoard.__del__ run by the interpreter when the board is destroyed;
\* the board is unusable afterwards
RelayBoard_del(t) ==
    /\ \A u \in Contexts : IsIdle(u)
    /\ phase = "live"
    /\ phase' = IF DelKills(persistent) THEN "del" ELSE "dead"
    /\ ctx' = [ctx EXCEPT ![t] = DelBody(Enter(t, "__del__", 0, 0, FALSE))]
    /\ UNCHANGED <<state, persistent, hw, busReliable, bus>>

(* ---------------------------- Relay calls ----------------------------- *)

\* an id check in Relay.__init__ that tests only the lower end of the range
RelayIdAllowed_from_1(id) == id >= 1

\* Relay.__init__: id in self.relays.allowed_ids
RelayIdAllowed(id) == \E i \in 1..Len(ALLOWED_IDS) : ALLOWED_IDS[i] = id

\* the ids of the Relay handles a caller can hold: __init__ returns a handle
\* only for these, and a handle has no other attribute than its board and id
RelayIds == {id \in Ids : RelayIdAllowed(id)}

\* Relay.__init__(relay, id, initially_on)
Relay_init(t, id, initially_on) ==
    /\ IsIdle(t)
    /\ phase = "live"
    /\ ctx' = [ctx EXCEPT ![t] =
                 LET c == Enter(t, "Relay", id, 0, initially_on)
                 IN  IF ~RelayIdAllowed(id) THEN Raised(c, "Exception")
                     ELSE IF initially_on THEN IdCall(c, id, TurnOnMask(state, id))
                     ELSE Returned(c)]
    /\ UNCHANGED <<phase, state, persistent, hw, busReliable, bus>>

\* Relay.on(): self.relays.turn_on(self.id)
Relay_on(t, id) ==
    /\ IsIdle(t)
    /\ phase = "live"
    /\ ctx' = [ctx EXCEPT ![t] =
                 IdCall(Enter(t, "Relay.on", id, 0, FALSE), id, TurnOnMask(state, id))]
    /\ UNCHANGED <<phase, state, persistent, hw, busReliable, bus>>

\* Relay.off(): self.relays.turn_off(self.id)
Relay_off(t, id) ==
    /\ IsIdle(t)
    /\ phase = "live"
    /\ ctx' = [ctx EXCEPT ![t] =
                 IdCall(Enter(t, "Relay.off", id, 0, FALSE), id, TurnOffMask(state, id))]
    /\ UNCHANGED <<phase, state, persistent, hw, busReliable, bus>>

\* Relay.toggle(): self.relays.switch(self.id)
Relay_toggle(t, id) ==
    /\ IsIdle(t)
    /\ phase = "live"
    /\ ctx' = [ctx EXCEPT ![t] =
                 IdCall(Enter(t, "Relay.toggle", id, 0, FALSE), id, SwitchMask(state, id))]
    /\ UNCHANGED <<phase, state, persistent, hw, busReliable, bus>>

\* Relay.cycle(duration): self.on(), then on to time.sleep
Relay_cycle(t, id, duration) ==
    /\ IsIdle(t)
    /\ phase = "live"
    /\ ctx' = [ctx EXCEPT ![t] =
                 LET c == Enter(t, "Relay.cycle", id, duration, FALSE)
                 IN  IF IdAllowed(id) THEN CallSetState(c, TurnOnMask(state, id), "sleep")
                     ELSE Raised(c, "Exception")]
    /\ UNCHANGED <<phase, state, persistent, hw, busReliable, bus>>

\* a bit test with the id in the place of its bit
RelayState_id_as_bit(s, id) == IF BitAnd(s, id) # 0 THEN "On" ELSE "Off"

\* "On" if self.relays.get_state() & 2**(self.id-1) else "Off"
RelayState(s, id) == IF BitAnd(s, Bit(id)) # 0 THEN "On" ELSE "Off"

\* Relay.get_state()
Relay_get_state(t, id) ==
    /\ IsIdle(t)
    /\ phase = "live"
    /\ ctx' = [ctx EXCEPT ![t] =
                 [Returned(Enter(t, "Relay.get_state", id, 0, FALSE)) EXCEPT
                    !.ret = <<RelayState(state, id)>>]]
    /\ UNCHANGED <<phase, state, persistent, hw, busReliable, bus>>

(* ----------------------- statements of set_state ---------------------- *)

\* whether write_byte_data can raise
WriteOutcomes == IF busReliable THEN {TRUE} ELSE BOOLEAN

\* set_state merging its argument into the mask it finds at the assignment
set_state_assign_merge(t) ==
    /\ ctx[t].pc = "set_state"
    /\ state' = BitOr(state, ctx[t].val)
    /\ ctx' = [ctx EXCEPT ![t].pc = "SMBus"]
    /\ UNCHANGED <<phase, persistent, hw, busReliable, bus>>

\* self.state = state
set_state_assign(t) ==
    /\ ctx[t].pc = "set_state"
    /\ state' = ctx[t].val
    /\ ctx' = [ctx EXCEPT ![t].pc = "SMBus"]
    /\ UNCHANGED <<phase, persistent, hw, busReliable, bus>>

\* with SMBus(1) as bus: the handle is opened (a step local to the context), and
\* bus.write_byte_data(self._relay_I2C_adress, self._relay_I2C_register, self.state)
\* sends the byte or raises
write_byte_data(t) ==
    /\ ctx[t].pc = "SMBus"
    /\ bus' = bus \cup {t}
    /\ \E ok \in WriteOutcomes :
         /\ hw' = IF ok THEN Byte(state) ELSE hw
         /\ ctx' = [ctx EXCEPT
                ![t].pc = "SMBus_exit",
                ![t].exc = ~ok,
                ![t].wlog = Append(@, [addr |-> RELAY_I2C_ADRESS,
                                       reg |-> RELAY_REGISTER,
                                       val |-> state, ok |-> ok])]
    /\ UNCHANGED <<phase, state, persistent, busReliable>>

\* a handle closed on the normal path only, as by a close() after the write
AfterWith_leak_on_error(b, t, exc) == IF exc THEN b ELSE b \ {t}

\* the open handles once context t has left "with SMBus(1) as bus", whether
\* the write raised (exc) or not: the context manager closes its handle
AfterWith(b, t, exc) == b \ {t}

\* leaving the with block closes the handle, on return and on exception;
\* an exception then propagates through every caller (no method catches it):
\* out of __init__ the unreferenced board is finalised (__del__ runs), and
\* out of a __del__ run by the interpreter it is ignored
SMBus_exit(t) ==
    LET c == ctx[t] IN
    /\ c.pc = "SMBus_exit"
    /\ bus' = AfterWith(bus, t, c.exc)
    /\ IF ~c.exc
         THEN /\ ctx' = [ctx EXCEPT ![t] = Resume(c)]
              /\ phase' = IF phase = "new" THEN "live" ELSE phase
         ELSE IF phase = "new"
         THEN /\ ctx' = [ctx EXCEPT ![t] = DelBody([c EXCEPT !.res = "OSError", !.exc = FALSE])]
              /\ phase' = IF DelKills(persistent) THEN "del" ELSE "dead"
         ELSE IF phase = "del"
         THEN /\ ctx' = [ctx EXCEPT ![t] =
                           [c EXCEPT !.pc = "idle", !.exc = FALSE,
                                     !.res = IF c.res = "none" THEN "ignored" ELSE c.res]]
              /\ phase' = "dead"
         ELSE /\ ctx' = [ctx EXCEPT ![t] = Raised([c EXCEPT !.exc = FALSE], "OSError")]
              /\ phase' = phase
    /\ UNCHANGED <<state, persistent, hw, busReliable>>

(* ------------------------- loops and suspension ----------------------- *)

\* kill: "for id in self.allowed_ids: self.turn_off(id)", one iteration,
\* or the end of the loop
kill_next(t) ==
    LET c == ctx[t] IN
    /\ c.pc = "kill"
    /\ IF c.idx <= Len(ALLOWED_IDS)
         THEN /\ ctx' = [ctx EXCEPT ![t] =
                    LET id == ALLOWED_IDS[c.idx]
                        n == [c EXCEPT !.idx = c.idx + 1]
                    IN  IF IdAllowed(id)
                          THEN CallSetState(n, TurnOffMask(state, id), "kill")
                          ELSE Raised(n, "Exception")]
              /\ phase' = phase
         ELSE /\ ctx' = [ctx EXCEPT ![t] =
                    [c EXCEPT !.pc = "idle",
                              !.res = IF c.res = "none" THEN "ok" ELSE c.res]]
              /\ phase' = IF phase = "del" THEN "dead" ELSE phase
    /\ UNCHANGED <<state, persistent, hw, busReliable, bus>>

\* time.sleep(duration) raises ValueError for a negative duration and can be
\* interrupted (KeyboardInterrupt); otherwise cycle goes on to self.off()
SleepOutcomes(duration) ==
    IF duration < 0 THEN {"ValueError"} ELSE {"ok", "KeyboardInterrupt"}

\* cycle: time.sleep(duration), then self.off()
sleep(t) ==
    LET c == ctx[t] IN
    /\ c.pc = "sleep"
    /\ \E out \in SleepOutcomes(c.op.arg) :
         ctx' = [ctx EXCEPT ![t] =
                   IF out = "ok"
                     THEN IdCall(c, c.op.id, TurnOffMask(state, c.op.id))
                     ELSE Raised(c, out)]
    /\ UNCHANGED <<phase, state, persistent, hw, busReliable, bus>>

(* --------------------------- specifications --------------------------- *)

\* one step of execution context t
Step(t) ==
    \/ \E m \in StateArgs, p \in BOOLEAN : RelayBoard_init(t, m, p)
    \/ \E m \in StateArgs : set_state(t, m)
    \/ \E id \in Ids : switch(t, id)
    \/ \E id \in Ids : turn_on(t, id)
    \/ \E id \in Ids : turn_off(t, id)
    \/ get_state(t)
    \/ kill(t)
    \/ RelayBoard_exit(t)
    \/ RelayBoard_del(t)
    \/ \E id \in Ids, on \in BOOLEAN : Relay_init(t, id, on)
    \/ \E id \in RelayIds : Relay_on(t, id)
    \/ \E id \in RelayIds : Relay_off(t, id)
    \/ \E id \in RelayIds : Relay_toggle(t, id)
    \/ \E id \in RelayIds, d \in Durations : Relay_cycle(t, id, d)
    \/ \E id \in RelayIds : Relay_get_state(t, id)
    \/ set_state_assign(t)
    \/ write_byte_data(t)
    \/ SMBus_exit(t)
    \/ kill_next(t)
    \/ sleep(t)

\* the single-owner program the library is written for: one execution context
Next == Step("main")

Spec == Init /\ [][Next]_vars

\* one step of a caller that constructs the board with a mask of the 4
\* channels and then uses only the calls that take a channel id or none:
\* switch, turn_on, turn_off (invalid ids included: they are rejected), kill
\* and the Relay handles' on, off, toggle and cycle
ValidCallsStep(t) ==
    \/ \E m \in Masks, p \in BOOLEAN : RelayBoard_init(t, m, p)
    \/ \E id \in Ids : switch(t, id)
    \/ \E id \in Ids : turn_on(t, id)
    \/ \E id \in Ids : turn_off(t, id)
    \/ kill(t)
    \/ \E id \in RelayIds : Relay_on(t, id)
    \/ \E id \in RelayIds : Relay_off(t, id)
    \/ \E id \in RelayIds : Relay_toggle(t, id)
    \/ \E id \in RelayIds, d \in Durations : Relay_cycle(t, id, d)
    \/ set_state_assign(t)
    \/ write_byte_data(t)
    \/ SMBus_exit(t)
    \/ kill_next(t)
    \/ sleep(t)

ValidCallsNext == ValidCallsStep("main")

SpecValidCalls == Init /\ [][ValidCallsNext]_vars

\* one step of one of two execution contexts that share a board constructed
\* by RelayBoard() and each call turn_on on it once, without any lock
SharedStep(t) ==
    \/ RelayBoard_init(t, 0, FALSE)
    \/ ctx[t].op.name # "turn_on" /\ \E id \in Ids : turn_on(t, id)
    \/ set_state_assign(t)
    \/ write_byte_data(t)
    \/ SMBus_exit(t)

SharedNext == \E t \in Contexts : SharedStep(t)

SpecShared == Init /\ [][SharedNext]_vars

(* ------------------------------ properties ---------------------------- *)

\* the single owner's context, and its last call once it has ended
main == ctx["main"]
Ended(names) == main.pc = "idle" /\ main.op.name \in names

\* RelayBoard's methods that take a channel id
IdMethods == {"switch", "turn_on", "turn_off"}

\* C1: between calls, whenever the program has written the register at
\* all, the mask in memory equals the last value successfully written to
\* the hardware register.
C1_MemoryEqualsHardware ==
    (main.pc = "idle" /\ hw # Unknown) => state = hw

\* C2: a set_state, switch, turn_on or turn_off whose bus write fails ends
\* with the bus error and leaves the mask in memory at its value before the
\* call.
C2_FailedWriteLeavesMask ==
    (Ended(Mutators) /\ main.wlog # <<>> /\ ~main.wlog[1].ok)
        => (main.res = "OSError" /\ state = main.pre)

\* C3: kill attempts a turn-off write for every one of the four channels,
\* also when the write for one of them fails.
C3_KillAttemptsEveryChannel ==
    Ended({"kill"}) => Len(main.wlog) = Len(ALLOWED_IDS)

\* C4: with a reliable bus, Relay.cycle never exits leaving its relay
\* energized, however the suspension ends.
C4_CycleReleasesRelay ==
    (Ended({"Relay.cycle"}) /\ busReliable)
        => BitAnd(state, Bit(main.op.id)) = 0

\* C5: switch, turn_on and turn_off with a channel id outside {1,2,3,4} fail
\* with the invalid-id exception, attempt no bus write and leave the mask
\* unchanged.
C5_InvalidIdRejected ==
    (Ended(IdMethods) /\ main.op.id \notin {1, 2, 3, 4})
        => (main.res = "Exception" /\ main.wlog = <<>> /\ state = main.pre)

\* C5 witness: an invalid id was rejected on a board with relays on
C5_Witness ==
    /\ Ended(IdMethods)
    /\ main.op.id \notin {1, 2, 3, 4}
    /\ main.res = "Exception"
    /\ main.pre # 0

\* C6: constructing a board with an initial mask outside 0..15 attempts no
\* bus write and never stores an out-of-range mask; with a mask in 0..15 the
\* constructor performs exactly one write, of that mask.
C6_ConstructorValidatesMask ==
    /\ (main.op.name = "RelayBoard" /\ main.op.arg \notin Masks)
          => (main.wlog = <<>> /\ state \in Masks)
    /\ (Ended({"RelayBoard"}) /\ main.op.arg \in Masks /\ main.res = "ok")
          => (Len(main.wlog) = 1 /\ main.wlog[1].val = main.op.arg)

\* C7: teardown (__exit__ or __del__) of a persistent board attempts no bus
\* write and leaves the mask as it was; of a board that is not persistent,
\* with a reliable bus, it ends with the mask and the register at 0.
C7_TeardownForcesOff ==
    Ended({"__exit__", "__del__"})
        => IF persistent
             THEN main.wlog = <<>> /\ state = main.pre
             ELSE busReliable => (state = 0 /\ hw = 0)

\* C8: set_state, switch, turn_on and turn_off with valid arguments attempt
\* exactly one bus write per call, also when the mask does not change and
\* when the write fails; kill attempts at most four.
C8_OneWritePerCall ==
    /\ (Ended(Mutators) /\ (main.op.name = "set_state" \/ main.op.id \in {1, 2, 3, 4}))
          => Len(main.wlog) = 1
    /\ Ended({"kill"}) => Len(main.wlog) <= 4

\* C8 witness: a turn_on of a channel that was already on, whose one write
\* failed
C8_Witness ==
    /\ Ended({"turn_on"})
    /\ main.op.id = 1
    /\ BitAnd(main.pre, 1) = 1
    /\ main.res = "OSError"
    /\ Len(main.wlog) = 1

\* C9: with a bus that always succeeds, get_state() right after set_state(m)
\* returns m, for every m in 0..15 and whatever the mask was before.
C9_SetThenGet ==
    (Ended({"get_state"}) /\ busReliable
       /\ main.prev.name = "set_state" /\ main.prev.arg \in Masks)
        => main.ret = <<main.prev.arg>>

\* C9 witness: set_state(10) on mask 5, then get_state() returned 10
C9_Witness ==
    /\ Ended({"get_state"})
    /\ busReliable
    /\ main.prev.name = "set_state"
    /\ main.prev.arg = 10
    /\ main.prev.pre = 5
    /\ main.ret = <<10>>

\* C10: with a reliable bus, switch(c) called twice in a row returns the mask
\* to its value m before the first call, for c in {1,2,3,4} and m in 0..15.
C10_SwitchTwice ==
    (Ended({"switch"}) /\ busReliable
       /\ main.prev.name = "switch" /\ main.prev.id = main.op.id
       /\ main.op.id \in {1, 2, 3, 4} /\ main.prev.pre \in Masks)
        => state = main.prev.pre

\* C10 witness: switch(3) twice on mask 5 (channel 3 on) ended at mask 5
C10_Witness ==
    /\ Ended({"switch"})
    /\ busReliable
    /\ main.prev.name = "switch"
    /\ main.prev.id = 3
    /\ main.op.id = 3
    /\ main.prev.pre = 5
    /\ main.pre = 1
    /\ state = 5

\* whether channel c is on in mask m, and the mask with that channel on and off,
\* by arithmetic on the binary digits
HasChannel(m, c) == (m \div 2 ^ (c - 1)) % 2 = 1
WithChannel(m, c) == IF HasChannel(m, c) THEN m ELSE m + 2 ^ (c - 1)
WithoutChannel(m, c) == IF HasChannel(m, c) THEN m - 2 ^ (c - 1) ELSE m

\* C11: with a reliable bus, turn_on(c) called twice in a row leaves the same
\* mask as the first call alone, for c in {1,2,3,4} and a starting mask in
\* 0..15.
C11_TurnOnTwice ==
    (Ended({"turn_on"}) /\ busReliable
       /\ main.prev.name = "turn_on" /\ main.prev.id = main.op.id
       /\ main.op.id \in {1, 2, 3, 4} /\ main.prev.pre \in Masks)
        => state = main.pre

\* C11 witness: turn_on(2) twice on mask 5: mask 7 after the first call and
\* after the second
C11_Witness ==
    /\ Ended({"turn_on"})
    /\ busReliable
    /\ main.prev.name = "turn_on"
    /\ main.prev.id = 2
    /\ main.op.id = 2
    /\ main.prev.pre = 5
    /\ main.pre = 7
    /\ state = 7

\* C12: with a reliable bus, turn_on(c) followed by turn_off(c) ends with
\* the starting mask m with bit (c-1) cleared and every other bit as in m,
\* for c in {1,2,3,4} and m in 0..15.
C12_TurnOnThenOff ==
    (Ended({"turn_off"}) /\ busReliable
       /\ main.prev.name = "turn_on" /\ main.prev.id = main.op.id
       /\ main.op.id \in {1, 2, 3, 4} /\ main.prev.pre \in Masks)
        => state = WithoutChannel(main.prev.pre, main.op.id)

\* C12 witness: turn_on(3), turn_off(3) on mask 13 (channels 1, 3, 4 on)
\* ended at mask 9
C12_Witness ==
    /\ Ended({"turn_off"})
    /\ busReliable
    /\ main.prev.name = "turn_on"
    /\ main.prev.id = 3
    /\ main.op.id = 3
    /\ main.prev.pre = 13
    /\ state = 9

\* the mask with channel c flipped
FlippedChannel(m, c) == IF HasChannel(m, c) THEN m - 2 ^ (c - 1) ELSE m + 2 ^ (c - 1)

\* the mask a call of switch, turn_on or turn_off of channel c is to produce
\* from mask m
NewMask(name, m, c) ==
    IF name = "switch" THEN FlippedChannel(m, c)
    ELSE IF name = "turn_on" THEN WithChannel(m, c)
    ELSE WithoutChannel(m, c)

\* C13: on a mask m in 0..15 and for c in {1,2,3,4}, switch(c) sends and
\* stores m XOR 2^(c-1), turn_on(c) sends and stores m OR 2^(c-1), turn_off(c)
\* sends and stores m AND NOT 2^(c-1): the one byte sent is the new mask, and
\* after a successful write the register holds it; with a reliable bus kill
\* ends at mask 0.
C13_NewMasks ==
    /\ (Ended(IdMethods) /\ main.op.id \in {1, 2, 3, 4} /\ main.pre \in Masks)
          => LET new == NewMask(main.op.name, main.pre, main.op.id)
             IN  /\ state = new
                 /\ Len(main.wlog) = 1
                 /\ main.wlog[1].val = new
                 /\ main.wlog[1].ok => hw = new
    /\ (Ended({"kill"}) /\ busReliable /\ main.pre \in Masks)
          => (state = 0 /\ hw = 0)

\* C13 witness: switch(1) on mask 0b0101 sent 0b0100, now in memory and in the
\* register
C13_Witness ==
    /\ Ended({"switch"})
    /\ main.op.id = 1
    /\ main.pre = 5
    /\ state = 4
    /\ hw = 4
    /\ main.wlog = <<[addr |-> RELAY_I2C_ADRESS, reg |-> RELAY_REGISTER,
                      val |-> 4, ok |-> TRUE]>>

\* C14: on a fresh board (mask 0) with a reliable bus, Relay.cycle(0) of
\* channel c whose zero-length suspension is not interrupted attempts exactly
\* two bus writes, first the mask with only c on and then mask 0, and leaves
\* the relay off.
C14_CycleZero ==
    (Ended({"Relay.cycle"}) /\ busReliable /\ main.pre = 0
       /\ main.op.arg = 0 /\ main.res # "KeyboardInterrupt")
        => /\ main.res = "ok"
           /\ Len(main.wlog) = 2
           /\ main.wlog[1].val = 2 ^ (main.op.id - 1)
           /\ main.wlog[2].val = 0
           /\ ~HasChannel(state, main.op.id)
           /\ state = 0
           /\ hw = 0

\* C14 witness: cycle(0) of channel 3 on a fresh board wrote 0b0100, then
\* 0b0000
C14_Witness ==
    /\ Ended({"Relay.cycle"})
    /\ busReliable
    /\ main.pre = 0
    /\ main.op.arg = 0
    /\ main.op.id = 3
    /\ main.res = "ok"
    /\ Len(main.wlog) = 2
    /\ main.wlog[1].val = 4
    /\ main.wlog[2].val = 0
    /\ state = 0

\* C15: Relay.__init__ with an id outside {1,2,3,4} fails with the invalid-id
\* exception, attempts no bus write and leaves the mask unchanged, whatever
\* initially_on is; with an id in {1,2,3,4} and initially_on false it attempts
\* no bus write; with initially_on true it attempts exactly one write, the
\* turn_on of that channel.
C15_RelayInit ==
    Ended({"Relay"}) =>
        IF main.op.id \notin {1, 2, 3, 4}
          THEN main.res = "Exception" /\ main.wlog = <<>> /\ state = main.pre
        ELSE IF ~main.op.flag
          THEN main.res = "ok" /\ main.wlog = <<>> /\ state = main.pre
        ELSE /\ Len(main.wlog) = 1
             /\ main.wlog[1].val = WithChannel(main.pre, main.op.id)
             /\ state = WithChannel(main.pre, main.op.id)

\* C15 witness: Relay(board, 5, initially_on=True) was rejected on a board
\* with relays on
C15_Witness ==
    /\ Ended({"Relay"})
    /\ main.op.id = 5
    /\ main.op.flag
    /\ main.res = "Exception"
    /\ main.wlog = <<>>
    /\ main.pre = 6

\* C16: Relay.get_state() of channel c returns "On" exactly when bit (c-1) of
\* the board's mask is 1, and RelayBoard.get_state() returns the mask; neither
\* attempts a bus write or changes the mask.
C16_ReadsArePure ==
    /\ Ended({"Relay.get_state"})
          => /\ main.ret = <<IF HasChannel(state, main.op.id) THEN "On" ELSE "Off">>
             /\ main.wlog = <<>>
             /\ state = main.pre
    /\ Ended({"get_state"})
          => /\ main.ret = <<state>>
             /\ main.wlog = <<>>
             /\ state = main.pre

\* C16 witness: the handle of channel 2 read "Off" on mask 0b0101, where
\* channels 1 and 3 are on
C16_Witness ==
    /\ Ended({"Relay.get_state"})
    /\ main.op.id = 2
    /\ state = 5
    /\ main.ret = <<"Off">>

\* mask m with the channels 1..k off
WithoutChannelsUpTo(m, k) == m - (m % 2 ^ k)

\* C17: with a reliable bus, kill on mask m attempts exactly four writes, in
\* ascending id order: the k-th payload is m with the channels 1..k off, so no
\* payload has a bit that is clear in m; for a mask m in 0..15 the last
\* payload is 0.
C17_KillAscending ==
    (Ended({"kill"}) /\ busReliable)
        => /\ Len(main.wlog) = 4
           /\ \A k \in 1..4 :
                main.wlog[k].val = WithoutChannelsUpTo(main.pre, k)
           /\ main.pre \in Masks => main.wlog[4].val = 0

\* C17 witness: kill on mask 0b1011 wrote 0b1010, 0b1000, 0b1000, 0b0000
C17_Witness ==
    /\ Ended({"kill"})
    /\ busReliable
    /\ main.pre = 11
    /\ Len(main.wlog) = 4
    /\ main.wlog[1].val = 10
    /\ main.wlog[2].val = 8
    /\ main.wlog[3].val = 8
    /\ main.wlog[4].val = 0

\* C19: an SMBus handle is open only from a write until its with block is left:
\* between two calls of the board no handle is open, also after a write that
\* failed.
C19_BusHandleScoped ==
    /\ \A t \in Contexts : t \in bus => ctx[t].pc = "SMBus_exit"
    /\ main.pc = "idle" => bus = {}

\* C19 witness: a turn_off whose write failed has ended, and no handle is open
C19_Witness ==
    /\ Ended({"turn_off"})
    /\ main.res = "OSError"
    /\ ~main.wlog[1].ok
    /\ bus = {}

\* C20: on a board constructed with a mask in 0..15 and used only through
\* switch, turn_on, turn_off, kill and the Relay handles' on, off, toggle and
\* cycle, the mask in memory is in 0..15 in every state, and so are every
\* byte sent on the bus and the register once written.
C20_MaskStaysInRange ==
    /\ state \in Masks
    /\ hw = Unknown \/ hw \in Masks
    /\ \A i \in 1..Len(main.wlog) : main.wlog[i].val \in Masks

\* C20 witness: Relay.toggle of channel 4 on mask 0b0111 sent 0b1111, the
\* largest mask
C20_Witness ==
    /\ Ended({"Relay.toggle"})
    /\ main.op.id = 4
    /\ main.pre = 7
    /\ state = 15
    /\ hw = 15
    /\ main.wlog[1].val = 15

\* the second execution context
worker == ctx["worker"]

\* both contexts have returned from turn_on, of two different channels
BothTurnedOn ==
    /\ main.pc = "idle" /\ main.op.name = "turn_on" /\ main.res = "ok"
    /\ worker.pc = "idle" /\ worker.op.name = "turn_on" /\ worker.res = "ok"
    /\ main.op.id # worker.op.id

\* C18: turn_on is not synchronized: when two contexts call turn_on(a) and
\* turn_on(b), a # b, on mask 0 and both return, the final mask has both bits
\* only if one context entered after the other's assignment; when both read
\* mask 0 on entry, one update is lost: the final mask, in memory and in the
\* register, has exactly one of the two bits.
C18_LostUpdate ==
    BothTurnedOn =>
        LET a == 2 ^ (main.op.id - 1)
            b == 2 ^ (worker.op.id - 1)
        IN  /\ hw = state
            /\ IF main.pre = 0 /\ worker.pre = 0
                 THEN state \in {a, b}
                 ELSE state = a + b

\* C18 witness: turn_on(1) and turn_on(2) both returned on a board that was at
\* mask 0, and only channel 2 is on
C18_Witness ==
    /\ BothTurnedOn
    /\ main.op.id = 1
    /\ worker.op.id = 2
    /\ main.pre = 0
    /\ worker.pre = 0
    /\ state = 2
    /\ hw = 2

====
